---- MODULE Spec2Model ----
(***************************************************************************)
(* Model of RaspiStill.c: the cadence scheduler (wait_for_next_frame), the *)
(* capture loop of main, and the encoder output callback                   *)
(* (encoder_buffer_callback) running on the pipeline's own thread.         *)
(*                                                                         *)
(* Two specifications share the variables:                                 *)
(*   Spec      the capture loop, the callback and the encoder port, in     *)
(*             every interleaving of the control thread and the callback   *)
(*   SpecSched wait_for_next_frame called repeatedly at increasing times   *)
(***************************************************************************)
EXTENDS Integers, Sequences, FiniteSets, TLC

\* ------------------------------------------------------------------ bounds
\* Timelapse intervals tried (ms): two small ones (odd and even, so that
\* interval/2 truncates) and the 1000 ms of the documented scenario.
Intervals == {4, 5, 1000}
\* Overall timeouts tried (ms); 0 means "no deadline".
Timeouts == {0, 12, 2500}
\* The clock is followed for this many intervals.
MaxIntervals == 5
\* A sleep may return late by up to this many clock steps.
MaxOversleep == 1
\* Loop iterations followed in the capture specification.
MaxIter == 2
\* Scheduler calls followed in the scheduler specifications.
MaxCalls == 4
\* Buffers the encoder produces for one frame, at most.
MaxFrameBufs == 2
\* Payload length of a buffer, at most.
MaxBufLen == 1
\* Size of the encoder output pool.
NumBuffers == 3
\* Raw coordinates (value, scale) of the sentences the telemetry reader is
\* given; value 0 with scale 0 is what the parser gives for an empty field.
Fields == {[value |-> -12345, scale |-> 100], [value |-> 0, scale |-> 100],
           [value |-> 12345, scale |-> 100], [value |-> 12345, scale |-> 1],
           [value |-> 0, scale |-> 0]}
\* Sentences the telemetry reader is followed through.
MaxSentences == 2
\* Runs of add_exif_tags followed in the telemetry specification.
MaxTagReads == 1
\* Lines that arrive on the serial port in the line-assembly specification.
MaxStream == 3
\* Lengths of these lines in bytes, the newline included: short sentences, the
\* longest line that fits line_buffer with its terminator, the shortest that
\* does not, and one that is longer than the assembly buffer.
LineLengths == {2, 3, 99, 100, 501}
\* Beside everything that is available, a read may deliver this many bytes.
ReadSizes == {1}
\* read() errors followed in the line-assembly specification.
MaxReadErrors == 1

\* options on the command line
MaxOptions == 3

\* --------------------------------------------------------------- constants
FRAME_NEXT_SINGLE == 0
FRAME_NEXT_TIMELAPSE == 1
FRAME_NEXT_KEYPRESS == 2
FRAME_NEXT_FOREVER == 3
FRAME_NEXT_GPIO == 4
FRAME_NEXT_SIGNAL == 5
FRAME_NEXT_IMMEDIATELY == 6

\* FILE* values: NULL, stdout, and k > 0 for the file opened in iteration k.
Null == 0
Stdout == -1

\* char buffer[500]; char line_buffer[100]; (lines 1704-1705)
BufferSize == 500
LineBufferSize == 100

FRAME_END == "FRAME_END"
TRANSMISSION_FAILED == "TRANSMISSION_FAILED"

VARIABLES
  \* configuration (RASPISTILL_STATE)
  frameNextMethod, timeout, timelapse, filename, datetime, timestamp, linkname,
  burstCaptureMode,
  \* the wall clock (time()) when the run starts: [sec, ms]
  wallStart,
  \* the clock (vcos_getmicrosecs64()/1000)
  now,
  \* statics of wait_for_next_frame
  complete_time, next_frame_ms,
  \* locals of main
  frame, keep_looping, output_file, num, q, buffer, mpc,
  \* PORT_USERDATA callback_data
  file_handle, complete_semaphore,
  \* encoder output port and pool
  is_enabled, queue, port, hw,
  \* the callback invocation in progress
  cb,
  \* history
  call, iter, closed, posts, acquired, released, wroteClosed, armed,
  \* history: what the trigger step of each loop iteration did about burst
  \* mode ("none" before it)
  burst,
  \* history: completion waits that returned, per loop iteration
  waits,
  \* the shared struct gps_info nav_data, the telemetry reader thread
  \* (gps_update) and the control thread inside add_exif_tags
  nav_data, gps, exif,
  \* the file system: per loop iteration whether the temporary and the final
  \* path exist and the bytes the file holds; the capture the link points to
  fs,
  \* history: bytes the callback passed to fwrite with success, per capture;
  \* how rename_file went, per capture
  written, finalized,
  \* the serial line and the locals buffer, in_buffer of gps_update
  serial,
  \* parse_cmdline: its position, its local valid, the options it has processed
  cmdline

schedVars == <<now, complete_time, next_frame_ms, frame, keep_looping, call>>
confVars == <<frameNextMethod, timeout, timelapse, filename, datetime, timestamp,
              linkname, burstCaptureMode, wallStart>>
mainVars == <<output_file, num, q, buffer, mpc, iter>>
pipeVars == <<file_handle, complete_semaphore, is_enabled, queue, port, hw, cb>>
histVars == <<closed, posts, acquired, released, wroteClosed, armed, waits, burst>>
gpsVars == <<nav_data, gps, exif>>
lineVars == <<serial>>
fsVars == <<fs, written, finalized>>
vars == <<confVars, schedVars, mainVars, pipeVars, histVars, gpsVars, fsVars, serial,
          cmdline>>

\* ----------------------------------------------------------------- helpers
\* C integer division: truncation toward zero (b > 0).
CDiv(a, b) == IF a >= 0 THEN a \div b ELSE -((-a) \div b)

\* ------------------------------------------------------- wait_for_next_frame
\* line 1561: the test that selects the "less than a half frame late" branch
SlightlyLate(this_delay_ms, tl) == -this_delay_ms < CDiv(-tl, 2)

NskipTruncated(this_delay_ms, tl) == CDiv(-this_delay_ms, tl)
\* line 1569
Nskip(this_delay_ms, tl) == 1 + CDiv(-this_delay_ms, tl)

NextOnTimeFromNow(nf, t, tl) == t + tl
\* line 1580: the deadline after a call that was not late
NextOnTime(nf, t, tl) == nf + tl

NextAfterSkipFromNow(nf, t, nskip, tl) == t + (nskip + 1) * tl
NextAfterSkipNoExtra(nf, t, nskip, tl) == nf + nskip * tl
\* line 1574: the deadline after frames were skipped
NextAfterSkip(nf, t, nskip, tl) == nf + (nskip + 1) * tl

NextFirstNoInterval(t_after, tl) == t_after
\* lines 1548-1552: the first next_frame_ms, from the time read after the sleep
NextFirst(t_after, tl) == t_after + tl

SkipSleepOneInterval(this_delay_ms, nskip, tl) == this_delay_ms + tl
\* lines 1572-1573: this_delay_ms += nskip * state->timelapse; vcos_sleep
SkipSleep(this_delay_ms, nskip, tl) == this_delay_ms + nskip * tl

\* The timelapse case, lines 1537-1585.  fr is *frame at entry, t the time
\* read at entry, over the lateness of the sleep of the first call.
Timelapse(nf, fr, t, tl, over) ==
  IF nf = -1
  THEN [next_frame_ms |-> NextFirst(t + tl + over, tl), frame |-> fr + 1,
        slept |-> tl, branch |-> "first", this_delay_ms |-> 0]
  ELSE LET this_delay_ms == nf - t IN
       IF this_delay_ms < 0
       THEN IF SlightlyLate(this_delay_ms, tl)
            THEN [next_frame_ms |-> nf + tl, frame |-> fr + 1,
                  slept |-> 0, branch |-> "late", this_delay_ms |-> this_delay_ms]
            ELSE LET nskip == Nskip(this_delay_ms, tl) IN
                 [next_frame_ms |-> NextAfterSkip(nf, t, nskip, tl),
                  frame |-> (fr + 1) + nskip,
                  slept |-> SkipSleep(this_delay_ms, nskip, tl),
                  branch |-> "skip", this_delay_ms |-> this_delay_ms]
       ELSE [next_frame_ms |-> NextOnTime(nf, t, tl), frame |-> fr + 1,
             slept |-> this_delay_ms, branch |-> "ontime",
             this_delay_ms |-> this_delay_ms]

\* lines 1506-1512: the overall deadline, set when the static is still -1
CompleteTime(ct, t, tmo) == IF ct = -1 THEN t + tmo ELSE ct

KeepRunningStrict(t, ct, tmo) == IF t > ct /\ tmo # 0 THEN 0 ELSE 1
\* lines 1507-1517: keep_running
KeepRunning(t, ct, tmo) == IF t >= ct /\ tmo # 0 THEN 0 ELSE 1

SingleReturnDeadline(keep_running) == keep_running
\* line 1524: return 0
SingleReturn(keep_running) == 0

ForeverReturnDeadline(keep_running) == keep_running
\* line 1534: return 1
ForeverReturn(keep_running) == 1

ImmediateSleepShort(fr) == 30
\* lines 1611-1614: the settling delay of the first frame, the short one after
ImmediateSleep(fr) == IF fr = 0 THEN 1000 ELSE 30

\* wait_for_next_frame, lines 1504-1668, as a function of the statics, *frame,
\* the time at entry, the character getchar() returns and the lateness of the
\* blocking call.  ret is the return value, slept the duration asked of
\* vcos_sleep.
wait_for_next_frame(method, tmo, tl, ct, nf, fr, t, ch, over) ==
  LET ct1 == CompleteTime(ct, t, tmo)
      keep_running == KeepRunning(t, ct1, tmo)
      plain == [complete_time |-> ct1, next_frame_ms |-> nf, frame |-> fr,
                ret |-> keep_running, slept |-> 0, branch |-> "none",
                this_delay_ms |-> 0]
  IN CASE method = FRAME_NEXT_SINGLE ->
            [plain EXCEPT !.ret = SingleReturn(keep_running), !.slept = tmo]
       [] method = FRAME_NEXT_FOREVER ->
            [plain EXCEPT !.frame = fr + 1, !.ret = ForeverReturn(keep_running),
                          !.slept = 10000]
       [] method = FRAME_NEXT_TIMELAPSE ->
            LET r == Timelapse(nf, fr, t, tl, over) IN
            [plain EXCEPT !.next_frame_ms = r.next_frame_ms, !.frame = r.frame,
                          !.slept = r.slept, !.branch = r.branch,
                          !.this_delay_ms = r.this_delay_ms]
       [] method = FRAME_NEXT_KEYPRESS ->
            [plain EXCEPT !.frame = fr + 1,
                          !.ret = IF ch = "x" THEN 0 ELSE keep_running]
       [] method = FRAME_NEXT_IMMEDIATELY ->
            [plain EXCEPT !.frame = fr + 1,
                          !.slept = ImmediateSleep(fr)]
       [] method = FRAME_NEXT_GPIO ->
            [plain EXCEPT !.ret = 0]
       [] method = FRAME_NEXT_SIGNAL ->
            [plain EXCEPT !.frame = fr + 1]
       [] OTHER -> plain

\* The time scale of a run (ms): the interval in Timelapse policy, the fixed
\* sleep in Forever policy, a few short delays in Immediate policy.
Unit == CASE frameNextMethod = FRAME_NEXT_TIMELAPSE /\ timelapse > 0 -> timelapse
          [] frameNextMethod = FRAME_NEXT_FOREVER -> 10000
          [] frameNextMethod = FRAME_NEXT_IMMEDIATELY -> 300
          [] OTHER -> 4
\* One step of the clock: 1 ms, a tenth of the time scale when it is long, half
\* of it when it is very long.
TimeStep == IF Unit >= 10000 THEN Unit \div 2
            ELSE IF Unit >= 100 THEN Unit \div 10 ELSE 1
\* The clock is followed up to here.
Horizon == MaxIntervals * Unit

\* ----------------------------------------------------- frame naming (main)
\* time(NULL) when the monotonic clock reads t: seconds since the epoch
RawTime(t) == wallStart.sec + ((wallStart.ms + t) \div 1000)

\* 2025-01-01 00:00:00 UTC and the length of that year, in seconds; days
\* before each month
Epoch2025 == 1735689600
YearSecs == 365 * 86400
DaysBefore == <<0, 31, 59, 90, 120, 151, 181, 212, 243, 273, 304, 334>>

\* localtime() (UTC taken as the local zone) for a time in 2025 or 2026
LocalTime(rawtime) ==
  LET s == (rawtime - Epoch2025) % YearSecs
      yday == s \div 86400
      mon == CHOOSE m \in 0..11 :
               /\ DaysBefore[m + 1] <= yday
               /\ (m = 11 \/ yday < DaysBefore[m + 2])
  IN [tm_mon |-> mon, tm_mday |-> (yday - DaysBefore[mon + 1]) + 1,
      tm_hour |-> (s % 86400) \div 3600, tm_min |-> (s % 3600) \div 60,
      tm_sec |-> s % 60]

\* lines 1992-2013: the frame identifier main goes on with after the scheduler
\* returned fr at time t
FrameName(fr, t) ==
  LET timeinfo == LocalTime(RawTime(t))
      dt == ((((timeinfo.tm_mon + 1) * 100 + timeinfo.tm_mday) * 100
               + timeinfo.tm_hour) * 100 + timeinfo.tm_min) * 100
            + timeinfo.tm_sec
  IN IF timestamp THEN RawTime(t) ELSE IF datetime THEN dt ELSE fr

\* What getchar() may return (line 1594); it is called in Keypress policy only.
Chars == {"x", "X", "n"}
Input == IF frameNextMethod = FRAME_NEXT_KEYPRESS THEN Chars ELSE {"n"}

\* The call of line 1990 with its effect on the statics, *frame and the clock,
\* and the naming of the frame that follows it (lines 1992-2013).
CallScheduler(ch, over) ==
  LET r == wait_for_next_frame(frameNextMethod, timeout, timelapse,
                               complete_time, next_frame_ms, frame, now, ch, over)
  IN /\ complete_time' = r.complete_time
     /\ next_frame_ms' = r.next_frame_ms
     /\ frame' = FrameName(r.frame, now + r.slept + over)
     /\ keep_looping' = r.ret
     /\ now' = now + r.slept + over
     /\ call' = [n |-> call.n + 1, branch |-> r.branch, entry |-> now,
                 this_delay_ms |-> r.this_delay_ms, slept |-> r.slept,
                 frame |-> frame, next_frame_ms |-> next_frame_ms,
                 first |-> IF call.n = 0 THEN now ELSE call.first,
                 ch |-> ch, ret |-> r.ret, ret_frame |-> r.frame,
                 prev_frame |-> call.frame]

\* ------------------------------------------------------------------- Init
NoCall == [n |-> 0, branch |-> "none", entry |-> 0, this_delay_ms |-> 0,
           slept |-> 0, frame |-> 0, next_frame_ms |-> -1, first |-> 0,
           ch |-> "n", ret |-> 1, ret_frame |-> 0, prev_frame |-> 0]
IdleCb == [pc |-> "idle", buffer |-> 0, length |-> 0, flags |-> {}, cap |-> 0,
           h |-> Null, bytes_written |-> 0, complete |-> 0, new_buffer |-> 0]

\* A coordinate of nav_data, zero-initialised as every global (north is 0);
\* upd is history: the number of the sentence that wrote it.
NoCoordinate == [ref |-> "north", deg |-> 0, min_scaled |-> 0, min_scale |-> 0,
                 upd |-> 0]
NoSentence == [kind |-> "none", latitude |-> [value |-> 0, scale |-> 0],
               longitude |-> [value |-> 0, scale |-> 0]]
IdleGps == [pc |-> "read", s |-> NoSentence, latitude |-> NoCoordinate,
            longitude |-> NoCoordinate, n |-> 0]
IdleExif == [pc |-> "idle", lat |-> -1, latref |-> -1, lon |-> -1, lonref |-> -1,
             n |-> 0, exif_buf |-> "", tags |-> <<>>,
             lat_ref |-> "none", lon_ref |-> "none"]

\* The serial line and the reader's locals.  Bytes are kept as runs
\* [id, len, nl]: len bytes of line number id, the last of them the newline
\* of the line when nl.  arrived (the lengths of the lines sent so far), lines
\* (what the scan has extracted) and errors are history.
IdleSerial == [pc |-> "read", pending |-> <<>>, arrived |-> <<>>,
               buffer |-> <<>>, in_buffer |-> 0, read_bytes |-> 0,
               lines |-> <<>>, errors |-> 0]

NoFile == [temp |-> FALSE, final |-> FALSE, bytes |-> 0]
NotFinalized == [rename |-> "none", link |-> "none"]

\* parse_cmdline has returned.
ParsedCmdline == [pc |-> "done", valid |-> TRUE, opts |-> <<>>]

InitState ==
  /\ fs = [files |-> [k \in 1..MaxIter |-> NoFile], latest |-> 0]
  /\ written = [k \in 1..MaxIter |-> 0]
  /\ finalized = [k \in 1..MaxIter |-> NotFinalized]
  /\ nav_data = [latitude |-> NoCoordinate, longitude |-> NoCoordinate,
                 speed |-> 0, course |-> 0, altitude |-> 0]
  /\ gps = IdleGps
  /\ serial = IdleSerial
  /\ exif = IdleExif
  /\ now = 0
  /\ complete_time = -1
  /\ next_frame_ms = -1
  /\ frame = 0
  /\ keep_looping = 1
  /\ output_file = Null
  /\ num = 0
  /\ q = 0
  /\ buffer = 0
  /\ mpc = "wait_frame"
  /\ iter = 0
  /\ file_handle = Null
  /\ complete_semaphore = 0
  /\ is_enabled = FALSE
  /\ queue = [i \in 1..NumBuffers |-> i]
  /\ port = <<>>
  /\ hw = [frame |-> 0, count |-> 0]
  /\ cb = IdleCb
  /\ call = NoCall
  /\ closed = {}
  /\ posts = [k \in 1..MaxIter |-> 0]
  /\ acquired = 0
  /\ released = 0
  /\ wroteClosed = FALSE
  /\ armed = {}
  /\ burst = [k \in 1..MaxIter |-> "none"]
  /\ waits = [k \in 1..MaxIter |-> 0]

InitCommon ==
  /\ InitState
  /\ cmdline = ParsedCmdline

\* ------------------------------------------------ the scheduler on its own
\* The policies the command line can select (nothing sets FRAME_NEXT_GPIO).
Policies == {FRAME_NEXT_SINGLE, FRAME_NEXT_TIMELAPSE, FRAME_NEXT_KEYPRESS,
             FRAME_NEXT_FOREVER, FRAME_NEXT_SIGNAL, FRAME_NEXT_IMMEDIATELY}
\* A wall clock far from any rollover: 2025-07-01 12:00:00.000
MidYear == [sec |-> Epoch2025 + 181 * 86400 + 12 * 3600, ms |-> 0]
\* 10 ms before the year ends: 2025-12-31 23:59:59.990
YearEnd == [sec |-> Epoch2025 + YearSecs - 1, ms |-> 990]

InitSched ==
  /\ InitCommon
  /\ frameNextMethod \in Policies
  /\ timelapse \in IF frameNextMethod = FRAME_NEXT_TIMELAPSE THEN Intervals ELSE {0}
  \* line 531: a zero timeout turns Single policy into Forever
  /\ timeout \in IF frameNextMethod = FRAME_NEXT_SINGLE THEN Timeouts \ {0}
                  ELSE Timeouts
  /\ filename = "none"
  /\ datetime = FALSE
  /\ timestamp = FALSE
  /\ wallStart = MidYear
  /\ linkname = FALSE
  /\ burstCaptureMode = FALSE

\* The loop of main calls the scheduler while keep_looping is set.
SchedCall ==
  /\ keep_looping # 0
  /\ now <= Horizon
  /\ call.n < MaxCalls
  /\ \E ch \in Input, k \in 0..MaxOversleep : CallScheduler(ch, k * TimeStep)
  /\ UNCHANGED <<confVars, serial, cmdline, gpsVars, fsVars, mainVars, pipeVars, histVars>>

\* Time passes between two calls (the capture itself, scheduling delays).
Elapse ==
  /\ now <= Horizon
  /\ now' = now + TimeStep
  /\ UNCHANGED <<complete_time, next_frame_ms, frame, keep_looping, call>>
  /\ UNCHANGED <<confVars, serial, cmdline, gpsVars, fsVars, mainVars, pipeVars, histVars>>

NextSched == SchedCall \/ Elapse

SpecSched == InitSched /\ [][NextSched]_vars

\* The scheduler with the naming modes of the frame (-dt, -ts), started 10 ms
\* before the end of the year.
InitNaming ==
  /\ InitCommon
  /\ frameNextMethod \in Policies
  /\ timelapse = IF frameNextMethod = FRAME_NEXT_TIMELAPSE THEN 4 ELSE 0
  /\ timeout = IF frameNextMethod = FRAME_NEXT_SINGLE THEN 12 ELSE 0
  /\ filename = "none"
  /\ datetime \in BOOLEAN
  /\ timestamp \in BOOLEAN
  /\ wallStart = YearEnd
  /\ linkname = FALSE
  /\ burstCaptureMode = FALSE

SpecNaming == InitNaming /\ [][NextSched]_vars

\* ------------------------------------------------------- the capture loop
\* The encoder path of the loop body (lines 2060-2149).  The run is taken with
\* sequential frame numbering (state.datetime and state.timestamp off) and
\* without the GL capture path (state.useGL off); create_filenames succeeds.
InitCapture ==
  /\ InitCommon
  /\ frameNextMethod \in {FRAME_NEXT_SINGLE, FRAME_NEXT_KEYPRESS}
  /\ timelapse = 0
  /\ timeout = IF frameNextMethod = FRAME_NEXT_SINGLE THEN 12 ELSE 0
  /\ filename \in {"none", "stdout", "file"}
  /\ datetime = FALSE
  /\ timestamp = FALSE
  /\ wallStart = MidYear
  /\ linkname = FALSE
  /\ burstCaptureMode = FALSE

\* lines 1988-1990: the loop test and the call of the scheduler
MWaitForNextFrame ==
  /\ mpc = "wait_frame"
  /\ iter < MaxIter
  /\ \E ch \in Input : CallScheduler(ch, 0)
  /\ iter' = iter + 1
  /\ mpc' = "open"
  /\ UNCHANGED <<confVars, serial, cmdline, gpsVars, fsVars, output_file, num, q, buffer, pipeVars, histVars>>

AfterOpenAlways(f) == "metadata"
\* lines 2052-2060, 2149: the capture is made only with an open output file
\* (the GL capture path is left out)
AfterOpen(f) == IF f # Null THEN "metadata" ELSE "cleanup"

\* lines 2015-2049: open the output file and hand it to the callback
MOpen ==
  /\ mpc = "open"
  /\ \E ok \in BOOLEAN :
       /\ output_file' = CASE filename = "none" -> output_file
                           [] filename = "stdout" -> Stdout
                           [] OTHER -> IF ok THEN iter ELSE Null
       /\ file_handle' = IF filename = "none" THEN file_handle ELSE output_file'
  \* fopen(use_filename, "wb") creates the temporary file, empty
  /\ fs' = IF filename \notin {"none", "stdout"} /\ output_file' # Null
           THEN [fs EXCEPT !.files[iter] = [@ EXCEPT !.temp = TRUE, !.bytes = 0]]
           ELSE fs
  /\ mpc' = AfterOpen(output_file')
  /\ UNCHANGED <<confVars, serial, cmdline, gpsVars, written, finalized, schedVars, num, q, buffer, iter, histVars,
                 complete_semaphore, is_enabled, queue, port, hw, cb>>

\* lines 2063-2086: add_exif_tags or MMAL_PARAMETER_EXIF_DISABLE, raw capture
\* and shutter speed, set for each capture before the port is enabled
MMetadata ==
  /\ mpc = "metadata"
  /\ mpc' = "enable"
  /\ UNCHANGED <<confVars, serial, cmdline, gpsVars, fsVars, schedVars, output_file, num, q, buffer, iter,
                 pipeVars, histVars>>

\* lines 2089-2098: userdata, then mmal_port_enable
MEnable ==
  /\ mpc = "enable"
  /\ is_enabled' = TRUE
  /\ acquired' = 0
  /\ released' = 0
  /\ mpc' = "queue_length"
  /\ UNCHANGED <<confVars, serial, cmdline, gpsVars, fsVars, schedVars, output_file, num, q, buffer, iter,
                 file_handle, complete_semaphore, queue, port, hw, cb,
                 closed, posts, wroteClosed, armed, waits, burst>>

\* lines 2101-2103: num = mmal_queue_length(...); q = 0
MQueueLength ==
  /\ mpc = "queue_length"
  /\ num' = Len(queue)
  /\ q' = 0
  /\ mpc' = IF Len(queue) > 0 THEN "prequeue_get" ELSE "trigger"
  /\ UNCHANGED <<confVars, serial, cmdline, gpsVars, fsVars, schedVars, output_file, buffer, iter, pipeVars, histVars>>

\* line 2105: buffer = mmal_queue_get(state.encoder_pool->queue)
MPrequeueGet ==
  /\ mpc = "prequeue_get"
  /\ IF queue # <<>>
     THEN /\ buffer' = Head(queue)
          /\ queue' = Tail(queue)
          /\ acquired' = acquired + 1
     ELSE /\ buffer' = 0
          /\ UNCHANGED <<queue, acquired>>
  /\ mpc' = "prequeue_send"
  /\ UNCHANGED <<confVars, serial, cmdline, gpsVars, fsVars, schedVars, output_file, num, q, iter,
                 file_handle, complete_semaphore, is_enabled, port, hw, cb,
                 closed, posts, released, wroteClosed, armed, waits, burst>>

\* mmal_port_send_buffer: the port takes the buffer only while it is enabled.
PortAccepts(b) == b # 0 /\ is_enabled

\* lines 2110-2112: mmal_port_send_buffer(encoder_output_port, buffer); q++
MPrequeueSend ==
  /\ mpc = "prequeue_send"
  /\ port' = IF PortAccepts(buffer) THEN Append(port, buffer) ELSE port
  /\ buffer' = 0
  /\ q' = q + 1
  /\ mpc' = IF q + 1 < num THEN "prequeue_get" ELSE "trigger"
  /\ UNCHANGED <<confVars, serial, cmdline, gpsVars, fsVars, schedVars, output_file, num, iter,
                 file_handle, complete_semaphore, is_enabled, queue, hw, cb, histVars>>

\* line 2114: if (state.burstCaptureMode && frame==1)
BurstActivated(mode, fr) == mode /\ fr = 1

\* lines 2114-2126: MMAL_PARAMETER_CAMERA_BURST_CAPTURE on frame 1, then set
\* MMAL_PARAMETER_CAPTURE; the wait is skipped when the call fails
MTrigger ==
  /\ mpc = "trigger"
  /\ burst' = [burst EXCEPT ![iter] =
                 IF BurstActivated(burstCaptureMode, frame) THEN "on" ELSE "off"]
  /\ \E ok \in BOOLEAN :
       IF ok THEN /\ hw' = [frame |-> iter, count |-> 0]
                  /\ armed' = armed \cup {iter}
                  /\ mpc' = "sem_wait"
             ELSE /\ hw' = hw
                  /\ armed' = armed
                  /\ mpc' = "clear_handle"
  /\ UNCHANGED <<confVars, serial, cmdline, gpsVars, fsVars, schedVars, output_file, num, q, buffer, iter,
                 file_handle, complete_semaphore, is_enabled, queue, port, cb,
                 closed, posts, acquired, released, wroteClosed, waits>>

\* line 2131: vcos_semaphore_wait(&callback_data.complete_semaphore)
MSemWait ==
  /\ mpc = "sem_wait"
  /\ complete_semaphore > 0
  /\ complete_semaphore' = complete_semaphore - 1
  /\ waits' = [waits EXCEPT ![iter] = @ + 1]
  /\ mpc' = "clear_handle"
  /\ UNCHANGED <<confVars, serial, cmdline, gpsVars, fsVars, schedVars, output_file, num, q, buffer, iter,
                 file_handle, is_enabled, queue, port, hw, cb,
                 closed, posts, acquired, released, wroteClosed, armed, burst>>

\* line 2137: callback_data.file_handle = NULL
MClearHandle ==
  /\ mpc = "clear_handle"
  /\ file_handle' = Null
  /\ mpc' = "finalize"
  /\ UNCHANGED <<confVars, serial, cmdline, gpsVars, fsVars, schedVars, output_file, num, q, buffer, iter,
                 complete_semaphore, is_enabled, queue, port, hw, cb, histVars>>

RenameTempAlways(file, ok) == [file EXCEPT !.temp = FALSE, !.final = TRUE]
\* rename_file, lines 1675-1681: after fclose, rename(use_filename,
\* final_filename); a failure is only logged
RenameTemp(file, ok) ==
  IF ok THEN [file EXCEPT !.temp = FALSE, !.final = TRUE] ELSE file

\* The outcomes of lines 1682-1698 (create_filenames, link or symlink, rename
\* of the link): none without -l, else done or failed
LinkOutcomes == IF linkname THEN {"ok", "failed"} ELSE {"none"}

\* lines 2139-2146 and rename_file (lines 1670-1700), or fflush for stdout
MFinalize ==
  /\ mpc = "finalize"
  /\ closed' = IF output_file # Stdout THEN closed \cup {output_file} ELSE closed
  /\ IF output_file = Stdout
     THEN UNCHANGED <<fs, finalized>>
     ELSE \E ok \in BOOLEAN, lk \in LinkOutcomes :
            /\ fs' = [fs EXCEPT !.files[output_file] = RenameTemp(@, ok),
                                !.latest = IF lk = "ok" THEN output_file ELSE @]
            /\ finalized' = [finalized EXCEPT ![output_file] =
                               [rename |-> IF ok THEN "ok" ELSE "failed",
                                link |-> lk]]
  /\ mpc' = "disable"
  /\ UNCHANGED <<confVars, serial, cmdline, gpsVars, written, schedVars, output_file, num, q, buffer, iter,
                 pipeVars, posts, acquired, released, wroteClosed, armed, waits, burst>>

PortLeftEnabled == is_enabled
\* line 2148: the state of the port after mmal_port_disable
PortDisabled == FALSE

\* line 2148, mmal_port_disable: the port stops accepting buffers and the
\* encoder drops what is left of the frame
MDisable ==
  /\ mpc = "disable"
  /\ is_enabled' = PortDisabled
  /\ hw' = [frame |-> 0, count |-> 0]
  /\ mpc' = "disabling"
  /\ UNCHANGED <<confVars, serial, cmdline, gpsVars, fsVars, schedVars, output_file, num, q, buffer, iter,
                 file_handle, complete_semaphore, queue, port, cb, histVars>>

\* mmal_port_disable returns once every buffer the port held has come back
\* through the callback
MDisableDone ==
  /\ mpc = "disabling"
  /\ port = <<>>
  /\ cb.pc = "idle"
  /\ mpc' = "cleanup"
  /\ UNCHANGED <<confVars, serial, cmdline, gpsVars, fsVars, schedVars, output_file, num, q, buffer, iter,
                 pipeVars, histVars>>

\* lines 2151-2161 and the loop test of line 1988
MCleanup ==
  /\ mpc = "cleanup"
  /\ mpc' = IF keep_looping # 0 THEN "wait_frame" ELSE "done"
  /\ UNCHANGED <<confVars, serial, cmdline, gpsVars, fsVars, schedVars, output_file, num, q, buffer, iter,
                 pipeVars, histVars>>

\* ------------------------------------------------ the encoder output port
EndFlags == {FRAME_END, TRANSMISSION_FAILED}

\* The encoder fills the oldest buffer it holds with the next part of the
\* frame and the port calls the callback with it; the last part of a frame
\* carries an end-of-frame or a transmission-failed flag.
HwFill ==
  /\ hw.frame # 0
  /\ is_enabled
  /\ port # <<>>
  /\ cb.pc = "idle"
  /\ \E len \in 0..MaxBufLen, fl \in {{}, {FRAME_END}, {TRANSMISSION_FAILED}} :
       /\ hw.count + 1 >= MaxFrameBufs => fl # {}
       /\ cb' = [IdleCb EXCEPT !.pc = "read_handle", !.buffer = Head(port),
                               !.length = len, !.flags = fl, !.cap = hw.frame]
       /\ hw' = IF fl # {} THEN [frame |-> 0, count |-> 0]
                ELSE [hw EXCEPT !.count = @ + 1]
  /\ port' = Tail(port)
  /\ UNCHANGED <<confVars, serial, cmdline, gpsVars, fsVars, schedVars, mainVars, file_handle, complete_semaphore,
                 is_enabled, queue, histVars>>

\* While the port is being disabled it hands back, empty, each buffer it holds.
HwFlush ==
  /\ mpc = "disabling"
  /\ port # <<>>
  /\ cb.pc = "idle"
  /\ cb' = [IdleCb EXCEPT !.pc = "read_handle", !.buffer = Head(port)]
  /\ port' = Tail(port)
  /\ UNCHANGED <<confVars, serial, cmdline, gpsVars, fsVars, schedVars, mainVars, file_handle, complete_semaphore,
                 is_enabled, queue, hw, histVars>>

\* ------------------------------------------------- encoder_buffer_callback
CompleteOnFlags(bytes_written, length, flags) ==
  IF flags \cap EndFlags # {} THEN 1 ELSE 0
\* lines 831-839: the completion decision
Complete(bytes_written, length, flags) ==
  IF bytes_written # length \/ flags \cap EndFlags # {} THEN 1 ELSE 0

InitialBytesWrittenZero(length) == 0
\* line 819: int bytes_written = buffer->length
InitialBytesWritten(length) == length

\* lines 815-821: bytes_written = buffer->length; read pData->file_handle
CbReadHandle ==
  /\ cb.pc = "read_handle"
  /\ cb' = IF cb.length # 0 /\ file_handle # Null
           THEN [cb EXCEPT !.h = file_handle,
                           !.bytes_written = InitialBytesWritten(cb.length),
                           !.pc = "fwrite"]
           ELSE [cb EXCEPT !.h = file_handle,
                           !.bytes_written = InitialBytesWritten(cb.length),
                           !.complete = Complete(InitialBytesWritten(cb.length),
                                                 cb.length, cb.flags),
                           !.pc = "release"]
  /\ UNCHANGED <<confVars, serial, cmdline, gpsVars, fsVars, schedVars, mainVars, file_handle, complete_semaphore,
                 is_enabled, queue, port, hw, histVars>>

\* lines 823-839: fwrite on the handle read before, then the completion
\* decision; fwrite may write less than asked
CbFwrite ==
  /\ cb.pc = "fwrite"
  /\ \E w \in 0..cb.length :
       cb' = [cb EXCEPT !.bytes_written = w,
                        !.complete = Complete(w, cb.length, cb.flags),
                        !.pc = "release"]
  /\ wroteClosed' = (wroteClosed \/ cb.h \in closed)
  /\ IF cb.h = Stdout
     THEN UNCHANGED <<fs, written>>
     ELSE /\ written' = [written EXCEPT ![cb.h] = @ + cb'.bytes_written]
          \* what is written after fclose does not reach the file
          /\ fs' = IF cb.h \in closed THEN fs
                   ELSE [fs EXCEPT !.files[cb.h].bytes = @ + cb'.bytes_written]
  /\ UNCHANGED <<confVars, serial, cmdline, gpsVars, finalized, schedVars, mainVars, file_handle, complete_semaphore,
                 is_enabled, queue, port, hw, closed, posts, acquired, released,
                 armed, waits, burst>>

\* line 847: mmal_buffer_header_release(buffer)
CbRelease ==
  /\ cb.pc = "release"
  /\ queue' = Append(queue, cb.buffer)
  /\ released' = released + 1
  /\ cb' = [cb EXCEPT !.buffer = 0, !.pc = "check_enabled"]
  /\ UNCHANGED <<confVars, serial, cmdline, gpsVars, fsVars, schedVars, mainVars, file_handle, complete_semaphore,
                 is_enabled, port, hw, closed, posts, acquired, wroteClosed, armed, waits, burst>>

\* line 850: if (port->is_enabled)
CbCheckEnabled ==
  /\ cb.pc = "check_enabled"
  /\ cb' = [cb EXCEPT !.pc = IF is_enabled THEN "queue_get" ELSE "post"]
  /\ UNCHANGED <<confVars, serial, cmdline, gpsVars, fsVars, schedVars, mainVars, file_handle, complete_semaphore,
                 is_enabled, queue, port, hw, histVars>>

\* line 855: new_buffer = mmal_queue_get(pData->pstate->encoder_pool->queue)
CbQueueGet ==
  /\ cb.pc = "queue_get"
  /\ IF queue # <<>>
     THEN /\ cb' = [cb EXCEPT !.new_buffer = Head(queue), !.pc = "send"]
          /\ queue' = Tail(queue)
          /\ acquired' = acquired + 1
     ELSE /\ cb' = [cb EXCEPT !.pc = "post"]
          /\ UNCHANGED <<queue, acquired>>
  /\ UNCHANGED <<confVars, serial, cmdline, gpsVars, fsVars, schedVars, mainVars, file_handle, complete_semaphore,
                 is_enabled, port, hw, closed, posts, released, wroteClosed, armed, waits, burst>>

\* lines 857-862: mmal_port_send_buffer(port, new_buffer); a failure is logged
CbSend ==
  /\ cb.pc = "send"
  /\ IF PortAccepts(cb.new_buffer)
     THEN /\ port' = Append(port, cb.new_buffer)
          /\ cb' = [cb EXCEPT !.new_buffer = 0, !.pc = "post"]
     ELSE /\ port' = port
          /\ cb' = [cb EXCEPT !.pc = "post"]
  /\ UNCHANGED <<confVars, serial, cmdline, gpsVars, fsVars, schedVars, mainVars, file_handle, complete_semaphore,
                 is_enabled, queue, hw, histVars>>

PostReadyWhenTaken(sem) == sem = 0
\* line 866: vcos_semaphore_post adds to the count whatever it is; it does not
\* wait for the count to be taken
PostReady(sem) == TRUE

\* lines 865-867: if (complete) vcos_semaphore_post(...); return
CbPost ==
  /\ cb.pc = "post"
  /\ cb.complete = 1 => PostReady(complete_semaphore)
  /\ IF cb.complete = 1
     THEN /\ complete_semaphore' = complete_semaphore + 1
          /\ posts' = [posts EXCEPT ![cb.cap] = @ + 1]
     ELSE UNCHANGED <<complete_semaphore, posts>>
  /\ cb' = IdleCb
  /\ UNCHANGED <<confVars, serial, cmdline, gpsVars, fsVars, schedVars, mainVars, file_handle, is_enabled, queue,
                 port, hw, closed, acquired, released, wroteClosed, armed, waits, burst>>

Main ==
  \/ MWaitForNextFrame \/ MOpen \/ MMetadata \/ MEnable \/ MQueueLength \/ MPrequeueGet
  \/ MPrequeueSend \/ MTrigger \/ MSemWait \/ MClearHandle \/ MFinalize
  \/ MDisable \/ MDisableDone \/ MCleanup

Callback ==
  \/ CbReadHandle \/ CbFwrite \/ CbRelease \/ CbCheckEnabled \/ CbQueueGet
  \/ CbSend \/ CbPost

Next == Main \/ HwFill \/ HwFlush \/ Callback

Spec == InitCapture /\ [][Next]_vars

\* The capture loop writing to a file, with and without a link name (-l).
InitFiles ==
  /\ InitCommon
  /\ frameNextMethod \in {FRAME_NEXT_SINGLE, FRAME_NEXT_KEYPRESS}
  /\ timelapse = 0
  /\ timeout = IF frameNextMethod = FRAME_NEXT_SINGLE THEN 12 ELSE 0
  /\ filename = "file"
  /\ datetime = FALSE
  /\ timestamp = FALSE
  /\ wallStart = MidYear
  /\ linkname \in BOOLEAN
  /\ burstCaptureMode = FALSE

SpecFiles == InitFiles /\ [][Next]_vars

\* The capture loop with burst mode (-bm) under every policy and naming mode.
InitBurst ==
  /\ InitCommon
  /\ frameNextMethod \in Policies
  /\ timelapse = IF frameNextMethod = FRAME_NEXT_TIMELAPSE THEN 4 ELSE 0
  /\ timeout = IF frameNextMethod = FRAME_NEXT_SINGLE THEN 12 ELSE 0
  /\ filename = "stdout"
  /\ datetime \in BOOLEAN
  /\ timestamp \in BOOLEAN
  /\ wallStart = MidYear
  /\ linkname = FALSE
  /\ burstCaptureMode = TRUE

SpecBurst == InitBurst /\ [][Next]_vars

\* The control thread and the callback thread are both scheduled, and a port
\* being disabled hands its buffers back.
SpecFair ==
  /\ Spec
  /\ WF_vars(Main)
  /\ WF_vars(Callback)
  /\ WF_vars(HwFlush)

\* ------------------------------------------------------ telemetry reader
\* lines 1728, 1743, 1771, 1785: if (frame.latitude.value > 0)
IsPositive(v) == v > 0

\* C remainder for a >= 0, b > 0
CRem(a, b) == a - b * CDiv(a, b)

DegreesUnscaled(a, s) == CDiv(a, 100)
\* lines 1737, 1752: value / (scale * 100)
Degrees(a, s) == CDiv(a, s * 100)

\* lines 1738, 1753: value % (scale * 100)
ScaledMinutes(a, s) == CRem(a, s * 100)

\* lines 1727-1754 (and 1770-1796): one coordinate from its raw value v and
\* scale s # 0; pos and neg are the two hemispheres
Normalise(v, s, pos, neg) ==
  LET a == IF IsPositive(v) THEN v ELSE -v
  IN [ref |-> IF IsPositive(v) THEN pos ELSE neg,
      deg |-> Degrees(a, s),
      min_scaled |-> ScaledMinutes(a, s),
      min_scale |-> s,
      upd |-> 0]

\* The same with scale 0, where the division by zero did not trap: quotient 0,
\* and the remainder computed from it.
NormaliseDivZero(v, pos, neg) ==
  LET a == IF IsPositive(v) THEN v ELSE -v
  IN [ref |-> IF IsPositive(v) THEN pos ELSE neg,
      deg |-> 0, min_scaled |-> a, min_scale |-> 0, upd |-> 0]

Coordinate(f, pos, neg) ==
  IF f.scale # 0 THEN Normalise(f.value, f.scale, pos, neg)
  ELSE NormaliseDivZero(f.value, pos, neg)

\* What a line read from the serial port can be: an RMC or a GGA sentence that
\* parses, a sentence of another type, one that does not parse, a line that
\* does not fit line_buffer[100], 500 bytes without a newline.
Parsed == {"rmc", "gga"}
Skipped == {"other", "malformed"}
Sentences ==
  [kind : Parsed, latitude : Fields, longitude : Fields]
  \cup {[NoSentence EXCEPT !.kind = k] : k \in Skipped \cup {"overlong", "unterminated"}}

\* lines 1709-1719: read() and the scan for the next newline
GpsRead ==
  /\ gps.pc = "read"
  /\ gps.n < MaxSentences
  /\ \E sentence \in Sentences :
       gps' = [gps EXCEPT !.pc = "parse", !.s = sentence, !.n = @ + 1]
  /\ UNCHANGED <<confVars, serial, cmdline, fsVars, schedVars, mainVars, pipeVars, histVars, nav_data, exif>>

\* lines 1715-1757 and 1765-1796: copy the line to line_buffer, switch on the
\* sentence type, parse and normalise into the locals latitude and longitude.
\* A line of 100 bytes or more overruns line_buffer, a division by a zero scale
\* is undefined: the reader goes on or dies.  With 500 bytes and no newline
\* read() is asked for 0 bytes from then on.
GpsParse ==
  /\ gps.pc = "parse"
  /\ \/ /\ gps.s.kind \in Parsed
        /\ gps' = [gps EXCEPT
                     !.latitude = Coordinate(gps.s.latitude, "north", "south"),
                     !.longitude = Coordinate(gps.s.longitude, "east", "west"),
                     !.pc = "write_lat"]
     \/ /\ gps.s.kind \in Parsed
        /\ gps.s.latitude.scale = 0 \/ gps.s.longitude.scale = 0
        /\ gps' = [gps EXCEPT !.pc = "crashed"]
     \/ /\ gps.s.kind \in Skipped \cup {"overlong"}
        /\ gps' = [gps EXCEPT !.pc = "read", !.s.kind = "skipped"]
     \/ /\ gps.s.kind = "overlong"
        /\ gps' = [gps EXCEPT !.pc = "crashed"]
     \/ /\ gps.s.kind = "unterminated"
        /\ gps' = [gps EXCEPT !.pc = "wedged"]
  /\ UNCHANGED <<confVars, serial, cmdline, fsVars, schedVars, mainVars, pipeVars, histVars, nav_data, exif>>

\* lines 1758, 1798: shareddata.latitude = latitude
GpsWriteLat ==
  /\ gps.pc = "write_lat"
  /\ nav_data' = [nav_data EXCEPT !.latitude = [gps.latitude EXCEPT !.upd = gps.n]]
  /\ gps' = [gps EXCEPT !.pc = "write_lon"]
  /\ UNCHANGED <<confVars, serial, cmdline, fsVars, schedVars, mainVars, pipeVars, histVars, exif>>

\* lines 1759, 1799: shareddata.longitude = longitude
GpsWriteLon ==
  /\ gps.pc = "write_lon"
  /\ nav_data' = [nav_data EXCEPT !.longitude = [gps.longitude EXCEPT !.upd = gps.n]]
  /\ gps' = [gps EXCEPT !.pc = "write_rest"]
  /\ UNCHANGED <<confVars, serial, cmdline, fsVars, schedVars, mainVars, pipeVars, histVars, exif>>

PublishAll(nd, kind, n) ==
  [nd EXCEPT !.speed = n, !.course = n, !.altitude = n]
\* lines 1760-1761 (speed, course of an RMC sentence) and 1801 (altitude of a
\* GGA sentence); the values are left out, the number of the sentence is kept
PublishRest(nd, kind, n) ==
  IF kind = "rmc" THEN [nd EXCEPT !.speed = n, !.course = n]
  ELSE [nd EXCEPT !.altitude = n]

\* lines 1760-1761 and 1801
GpsWriteRest ==
  /\ gps.pc = "write_rest"
  /\ nav_data' = PublishRest(nav_data, gps.s.kind, gps.n)
  /\ gps' = [IdleGps EXCEPT !.n = gps.n]
  /\ UNCHANGED <<confVars, serial, cmdline, fsVars, schedVars, mainVars, pipeVars, histVars, exif>>

GpsUpdate == GpsRead \/ GpsParse \/ GpsWriteLat \/ GpsWriteLon \/ GpsWriteRest

\* add_exif_tags, lines 1343-1360, on the control thread: each tag is built
\* from nav_data as it is at that moment; exif keeps which sentence wrote
\* what was read.
ExifStart ==
  /\ exif.pc = "idle"
  /\ exif.n < MaxTagReads
  /\ exif' = [IdleExif EXCEPT !.pc = "lat", !.n = exif.n + 1]
  /\ UNCHANGED <<confVars, serial, cmdline, fsVars, schedVars, mainVars, pipeVars, histVars, nav_data, gps>>

\* What exif_buf holds when add_exif_tag is called for a hemisphere: the two
\* snprintf of lines 1346-1349 and 1356-1359 both test for north and south.
RefTag(name, ref, exif_buf) ==
  IF ref = "south" THEN name \o "=S"
  ELSE IF ref = "north" THEN name \o "=N"
  ELSE exif_buf

\* lines 1343-1344: GPS.GPSLatitude from deg, min_scaled, min_scale
ExifLatitude ==
  /\ exif.pc = "lat"
  /\ exif' = [exif EXCEPT !.lat = nav_data.latitude.upd, !.pc = "latref",
                          !.exif_buf = "GPS.GPSLatitude",
                          !.tags = Append(@, "GPS.GPSLatitude")]
  /\ UNCHANGED <<confVars, serial, cmdline, fsVars, schedVars, mainVars, pipeVars, histVars, nav_data, gps>>

\* lines 1346-1350: GPS.GPSLatitudeRef from latitude.ref
ExifLatitudeRef ==
  /\ exif.pc = "latref"
  /\ LET tag == RefTag("GPS.GPSLatitudeRef", nav_data.latitude.ref, exif.exif_buf)
     IN exif' = [exif EXCEPT !.latref = nav_data.latitude.upd, !.pc = "lon",
                             !.lat_ref = nav_data.latitude.ref,
                             !.exif_buf = tag, !.tags = Append(@, tag)]
  /\ UNCHANGED <<confVars, serial, cmdline, fsVars, schedVars, mainVars, pipeVars, histVars, nav_data, gps>>

\* line 1353: GPS.GPSLongitude
ExifLongitude ==
  /\ exif.pc = "lon"
  /\ exif' = [exif EXCEPT !.lon = nav_data.longitude.upd, !.pc = "lonref",
                          !.exif_buf = "GPS.GPSLongitude",
                          !.tags = Append(@, "GPS.GPSLongitude")]
  /\ UNCHANGED <<confVars, serial, cmdline, fsVars, schedVars, mainVars, pipeVars, histVars, nav_data, gps>>

\* lines 1356-1360: GPS.GPSLongitudeRef
ExifLongitudeRef ==
  /\ exif.pc = "lonref"
  /\ LET tag == RefTag("GPS.GPSLongitudeRef", nav_data.longitude.ref, exif.exif_buf)
     IN exif' = [exif EXCEPT !.lonref = nav_data.longitude.upd, !.pc = "idle",
                             !.lon_ref = nav_data.longitude.ref,
                             !.exif_buf = tag, !.tags = Append(@, tag)]
  /\ UNCHANGED <<confVars, serial, cmdline, fsVars, schedVars, mainVars, pipeVars, histVars, nav_data, gps>>

AddExifTags ==
  \/ ExifStart \/ ExifLatitude \/ ExifLatitudeRef \/ ExifLongitude
  \/ ExifLongitudeRef

\* The telemetry thread (pthread_create, line 1832) beside the control thread.
InitGps ==
  /\ InitCommon
  /\ frameNextMethod = FRAME_NEXT_SINGLE
  /\ timelapse = 0
  /\ timeout = 12
  /\ filename = "file"
  /\ datetime = FALSE
  /\ timestamp = FALSE
  /\ wallStart = MidYear
  /\ linkname = FALSE
  /\ burstCaptureMode = FALSE

NextGps == GpsUpdate \/ AddExifTags

SpecGps == InitGps /\ [][NextGps]_vars

\* ------------------------------------------ the line assembly of gps_update
RECURSIVE BytesOf(_)
BytesOf(runs) ==
  IF runs = <<>> THEN 0 ELSE Head(runs).len + BytesOf(Tail(runs))

\* The first k bytes of runs.
RECURSIVE Take(_, _)
Take(runs, k) ==
  IF k <= 0 \/ runs = <<>> THEN <<>>
  ELSE IF Head(runs).len <= k
       THEN <<Head(runs)>> \o Take(Tail(runs), k - Head(runs).len)
       ELSE <<[Head(runs) EXCEPT !.len = k, !.nl = FALSE]>>

\* What is left of runs behind its first k bytes.
RECURSIVE Drop(_, _)
Drop(runs, k) ==
  IF k <= 0 \/ runs = <<>> THEN runs
  ELSE IF Head(runs).len <= k THEN Drop(Tail(runs), k - Head(runs).len)
       ELSE <<[Head(runs) EXCEPT !.len = @ - k]>> \o Tail(runs)

\* The bytes b stored behind the bytes a; the bytes of one line that follow
\* each other are kept as one run.
Join(a, b) ==
  IF a # <<>> /\ b # <<>> /\ a[Len(a)].id = b[1].id /\ ~a[Len(a)].nl
  THEN SubSeq(a, 1, Len(a) - 1)
         \o <<[b[1] EXCEPT !.len = @ + a[Len(a)].len]>> \o Tail(b)
  ELSE a \o b

\* line 1715: i - start_line + 1 for the first newline at or behind
\* start_line; 0 when there is none
RECURSIVE LineLength(_)
LineLength(runs) ==
  IF runs = <<>> THEN 0
  ELSE IF Head(runs).nl THEN Head(runs).len
  ELSE LET r == LineLength(Tail(runs))
       IN IF r = 0 THEN 0 ELSE Head(runs).len + r

ScanReachesAll(i, in_buffer, start_line) == i < in_buffer + start_line
\* line 1711: the loop test i<in_buffer, with in_buffer as line 1806 has
\* reduced it for every line extracted before
ScanReaches(i, in_buffer, start_line) == i < in_buffer

\* lines 1716-1717: strncpy of line_length bytes and the terminator at
\* line_buffer[line_length] stay inside line_buffer
Fits(line_length) == line_length < LineBufferSize

\* lines 1710-1808: the for loop over the bytes of buffer; rest is what
\* buffer holds from start_line on
RECURSIVE Scan(_, _, _)
Scan(rest, in_buffer, start_line) ==
  LET line_length == LineLength(rest)
      i == start_line + line_length - 1
  IN IF line_length > 0 /\ ScanReaches(i, in_buffer, start_line)
     THEN LET r == Scan(Drop(rest, line_length), in_buffer - line_length, i + 1)
          IN [r EXCEPT !.lines = <<Take(rest, line_length)>> \o @]
     ELSE [rest |-> rest, in_buffer |-> in_buffer, start_line |-> start_line,
           lines |-> <<>>]

\* lines 1809-1812: memmove(buffer, buffer+start_line, in_buffer)
Compact(buf, rest, in_buffer, start_line) ==
  IF start_line > 0 THEN Take(rest, in_buffer) ELSE buf

\* A line arrives at the serial port (the tty queue).
SerArrive ==
  /\ Len(serial.arrived) < MaxStream
  /\ \E len \in LineLengths :
       serial' = [serial EXCEPT
                    !.arrived = Append(@, len),
                    !.pending = Append(@, [id |-> Len(serial.arrived) + 1,
                                           len |-> len, nl |-> TRUE])]
  /\ UNCHANGED <<confVars, cmdline, gpsVars, fsVars, schedVars, mainVars, pipeVars,
                 histVars>>

\* What read(fd, buffer+in_buffer, sizeof(buffer)-in_buffer) may return: some
\* or all of the bytes that are there and fit, 0 when there are none or none
\* is asked for, -1 on an error.
ReadResults ==
  LET size == BufferSize - serial.in_buffer
      avail == IF BytesOf(serial.pending) < size THEN BytesOf(serial.pending)
               ELSE size
  IN (IF avail > 0 THEN {avail} \cup {k \in ReadSizes : k < avail} ELSE {0})
     \cup (IF serial.errors < MaxReadErrors THEN {-1} ELSE {})

\* lines 1709-1710: read_bytes = read(...); in_buffer += read_bytes.  With
\* in_buffer < 0 the read is asked to store in front of buffer: the reader
\* dies, or goes on with the bytes that landed there lost.
SerRead ==
  /\ serial.pc = "read"
  /\ \E read_bytes \in ReadResults :
       \/ /\ read_bytes >= 0
          /\ serial' = [serial EXCEPT
               !.pc = "scan",
               !.read_bytes = read_bytes,
               !.buffer = IF serial.in_buffer >= 0
                          THEN Join(@, Take(serial.pending, read_bytes))
                          ELSE Drop(Take(serial.pending, read_bytes),
                                    -serial.in_buffer),
               !.pending = Drop(@, read_bytes),
               !.in_buffer = @ + read_bytes]
       \/ /\ read_bytes < 0
          /\ serial' = [serial EXCEPT
               !.pc = "scan",
               !.read_bytes = read_bytes,
               !.buffer = Take(@, serial.in_buffer + read_bytes),
               !.in_buffer = @ + read_bytes,
               !.errors = @ + 1]
       \/ /\ serial.in_buffer < 0
          /\ serial' = [serial EXCEPT !.pc = "crashed"]
  /\ UNCHANGED <<confVars, cmdline, gpsVars, fsVars, schedVars, mainVars, pipeVars,
                 histVars>>

\* lines 1711-1813: the scan for lines, the compaction and the sleep.  A line
\* that does not fit line_buffer overruns it: the reader dies or goes on.
SerScan ==
  /\ serial.pc = "scan"
  /\ LET r == Scan(serial.buffer, serial.in_buffer, 0)
     IN \E next \in {"read"} \cup
                     (IF \E k \in 1..Len(r.lines) : ~Fits(BytesOf(r.lines[k]))
                      THEN {"crashed"} ELSE {}) :
          serial' = [serial EXCEPT
                       !.pc = next,
                       !.lines = @ \o r.lines,
                       !.buffer = Compact(@, r.rest, r.in_buffer, r.start_line),
                       !.in_buffer = r.in_buffer]
  /\ UNCHANGED <<confVars, cmdline, gpsVars, fsVars, schedVars, mainVars, pipeVars,
                 histVars>>

InitSerial == InitGps

NextSerial == SerArrive \/ SerRead \/ SerScan

SpecSerial == InitSerial /\ [][NextSerial]_vars

\* The reader thread is scheduled again and again.
SpecSerialFair == SpecSerial /\ WF_vars(SerRead) /\ WF_vars(SerScan)

\* --------------------------------------------------------- the command line
\* parse_cmdline (lines 413-731) on the options that touch the cadence policy,
\* one loop iteration per step.  A numeric argument is a number or text
\* sscanf("%u") rejects.
Bad == -1

TimeoutArgs == {0, 12, Bad}

TimelapseArgs == {0, 4, Bad}

Options == ({"timeout"} \X TimeoutArgs) \cup ({"timelapse"} \X TimelapseArgs)
             \cup {<<"keypress", 0>>, <<"signal", 0>>, <<"datetime", 0>>}

\* line 531 reads frameNextMethod before it sets it.
ZeroTimeoutAlways(method) == FRAME_NEXT_FOREVER

\* lines 531-532: a timeout of 0 turns Single into Forever.
ZeroTimeout(method) ==
  IF method = FRAME_NEXT_SINGLE THEN FRAME_NEXT_FOREVER ELSE method

\* case CommandTimeout (lines 526-539)
ParseTimeout(arg) ==
  IF arg # Bad
    THEN /\ timeout' = arg
         /\ frameNextMethod' = IF arg = 0 THEN ZeroTimeout(frameNextMethod)
                                ELSE frameNextMethod
         /\ cmdline' = [cmdline EXCEPT !.opts = Append(@, <<"timeout", arg>>)]
         /\ UNCHANGED timelapse
    ELSE /\ cmdline' = [cmdline EXCEPT !.opts = Append(@, <<"timeout", arg>>),
                                       !.valid = FALSE]
         /\ UNCHANGED <<timeout, frameNextMethod, timelapse>>

\* case CommandTimelapse (lines 612-625)
ParseTimelapse(arg) ==
  IF arg # Bad
    THEN /\ timelapse' = arg
         /\ frameNextMethod' = IF arg # 0 THEN FRAME_NEXT_TIMELAPSE
                                ELSE FRAME_NEXT_IMMEDIATELY
         /\ cmdline' = [cmdline EXCEPT !.opts = Append(@, <<"timelapse", arg>>)]
         /\ UNCHANGED timeout
    ELSE /\ cmdline' = [cmdline EXCEPT !.opts = Append(@, <<"timelapse", arg>>),
                                       !.valid = FALSE]
         /\ UNCHANGED <<timeout, frameNextMethod, timelapse>>

\* case CommandKeypress (lines 631-633), case CommandSignal (lines 635-639)
ParsePolicy(opt, method) ==
  /\ frameNextMethod' = method
  /\ cmdline' = [cmdline EXCEPT !.opts = Append(@, <<opt, 0>>)]
  /\ UNCHANGED <<timeout, timelapse>>

\* an option that leaves the policy alone, e.g. case CommandDateTime
\* (lines 519-521); datetime itself is drawn by Init
ParseOther(opt) ==
  /\ cmdline' = [cmdline EXCEPT !.opts = Append(@, <<opt, 0>>)]
  /\ UNCHANGED <<timeout, timelapse, frameNextMethod>>

\* One iteration of the loop of line 421: i < argc && valid.
ParseOption ==
  /\ cmdline.pc = "parse"
  /\ cmdline.valid
  /\ Len(cmdline.opts) < MaxOptions
  /\ \E o \in Options :
       CASE o[1] = "timeout" -> ParseTimeout(o[2])
         [] o[1] = "timelapse" -> ParseTimelapse(o[2])
         [] o[1] = "keypress" -> ParsePolicy("keypress", FRAME_NEXT_KEYPRESS)
         [] o[1] = "signal" -> ParsePolicy("signal", FRAME_NEXT_SIGNAL)
         [] OTHER -> ParseOther(o[1])
  /\ UNCHANGED <<filename, datetime, timestamp, linkname, burstCaptureMode, wallStart,
                 serial, gpsVars, fsVars, schedVars, mainVars, pipeVars, histVars>>

\* The loop ends (i = argc or valid = 0) and parse_cmdline returns
\* (lines 725-731).
ParseReturn ==
  /\ cmdline.pc = "parse"
  /\ cmdline' = [cmdline EXCEPT !.pc = IF cmdline.valid THEN "done" ELSE "invalid"]
  /\ UNCHANGED <<confVars, serial, gpsVars, fsVars, schedVars, mainVars, pipeVars,
                 histVars>>

\* After default_status (lines 290-330): timeout 5000 ms, Single, no timelapse.
InitCmdline ==
  /\ InitState
  /\ cmdline = [pc |-> "parse", valid |-> TRUE, opts |-> <<>>]
  /\ frameNextMethod = FRAME_NEXT_SINGLE
  /\ timelapse = 0
  /\ timeout = 5000
  /\ filename = "file"
  /\ datetime = FALSE
  /\ timestamp = FALSE
  /\ wallStart = MidYear
  /\ linkname = FALSE
  /\ burstCaptureMode = FALSE

NextCmdline == ParseOption \/ ParseReturn

SpecCmdline == InitCmdline /\ [][NextCmdline]_vars

\* ---------------------------------------------- claims on the capture loop
\* Capture k has been through its whole cycle: its port was disabled again.
Finished(k) == k < iter \/ (k = iter /\ mpc \in {"cleanup", "wait_frame", "done"})

\* C1 (as claimed): for every armed capture the callback posts the completion
\* semaphore exactly once: never twice, and once by the time the capture's
\* cycle is over.
C1_PostedExactlyOnce ==
  \A k \in 1..MaxIter :
     /\ posts[k] <= 1
     /\ (k \in armed /\ Finished(k)) => posts[k] = 1

\* A buffer of capture k is still to be written (the encoder has not delivered
\* the end of the frame, or a callback holds a part it has not written yet) or
\* is being written.
PendingWrite(k) ==
  \/ hw.frame = k
  \/ cb.cap = k /\ cb.length # 0 /\ cb.pc \in {"read_handle", "fwrite"}

\* C2 (as claimed): rename_file is never entered for the file of capture k
\* while a buffer of capture k is still to be written or is being written.
C2_WritesBeforeRename ==
  (mpc = "finalize" /\ output_file # Stdout /\ iter \in armed) => ~PendingWrite(iter)

\* C3 (as claimed): no callback invocation writes to a file handle that the
\* control thread has closed.
C3_NoWriteOnClosedHandle == ~wroteClosed

\* C4 (as claimed): while the orchestrator waits for capture k and no post of
\* capture k has occurred the semaphore count is 0, and no post is left
\* unconsumed when the loop has ended.
C4_SemaphoreBalanced ==
  /\ (mpc = "sem_wait" /\ posts[iter] = 0) => complete_semaphore = 0
  /\ mpc = "done" => complete_semaphore = 0

\* C5 (as claimed): when a capture cycle is over (the port is disabled again)
\* as many buffers were released to the pool as were taken from it.
C5_PoolConservation ==
  mpc = "cleanup" => released = acquired

\* Number of places buffer b is in: the pool queue, the port, the callback
\* invocation (the buffer it was called with, the one it redispatches), and
\* the pre-queue loop on its way from the queue to the port.
Count(seq, b) == Cardinality({i \in 1..Len(seq) : seq[i] = b})
Places(b) ==
  Count(queue, b) + Count(port, b)
  + (IF cb.buffer = b THEN 1 ELSE 0) + (IF cb.new_buffer = b THEN 1 ELSE 0)
  + (IF buffer = b THEN 1 ELSE 0)

\* C6 (as claimed): in every reachable state every pool buffer is in exactly
\* one of the states queued, held by the port, in the hands of a callback.
C6_ExactlyOneState == \A b \in 1..NumBuffers : Places(b) = 1


\* ------------------------------------------------- claims on the scheduler
\* The last call was a timelapse call made after the deadline was established.
LaterCall == call.n >= 1 /\ call.next_frame_ms # -1
\* delay = next_due - now as that call observed it
CallDelay == call.next_frame_ms - call.entry

\* C7: in Timelapse policy, once next_frame_ms is established every later call
\* of wait_for_next_frame leaves it strictly larger, by a positive whole
\* multiple of the interval, and no other step changes it.
C7_NextDueOnlyAdvances ==
  [][next_frame_ms # -1 =>
       /\ next_frame_ms' >= next_frame_ms
       /\ (next_frame_ms' - next_frame_ms) % timelapse = 0
       /\ (call'.n # call.n => next_frame_ms' > next_frame_ms)]_vars

C7_Witness ==
  /\ LaterCall
  /\ call.n >= 3
  /\ CallDelay < 0
  /\ next_frame_ms >= call.next_frame_ms + 3 * timelapse

\* C8: a non-first Timelapse call that observes delay >= 0 asks vcos_sleep for
\* exactly delay, advances next_frame_ms by exactly one interval and the frame
\* counter by exactly 1.
C8_OnTime ==
  (LaterCall /\ CallDelay >= 0) =>
     /\ call.slept = CallDelay
     /\ next_frame_ms = call.next_frame_ms + timelapse
     /\ frame = call.frame + 1

C8_Witness ==
  /\ LaterCall
  /\ CallDelay > 0
  /\ call.slept = CallDelay
  /\ frame = call.frame + 1

\* C9 (as claimed): a non-first Timelapse call late by less than half an
\* interval does not sleep, advances the frame counter by exactly 1 and
\* next_frame_ms by exactly one interval.
C9_SlightlyLate ==
  (LaterCall /\ CallDelay < 0 /\ -CallDelay < CDiv(timelapse, 2)) =>
     /\ call.slept = 0
     /\ frame = call.frame + 1
     /\ next_frame_ms = call.next_frame_ms + timelapse

\* C10 (as claimed): a non-first Timelapse call late by at least half an
\* interval advances the frame counter by exactly 1 + floor(|delay| / I).
C10_SkipAsClaimed ==
  (LaterCall /\ CallDelay < 0 /\ -CallDelay >= CDiv(timelapse, 2)) =>
     frame = call.frame + 1 + ((-CallDelay) \div timelapse)

\* C10 (amended): such a call advances the frame counter by exactly
\* 1 + skip = 2 + floor(|delay| / I): one for the frame that is due and
\* skip for the frames skipped; with I = 1000 and a call 2600 ms late, by 4.
C10_SkipAdvance ==
  (LaterCall /\ CallDelay < 0 /\ -CallDelay >= CDiv(timelapse, 2)) =>
     /\ frame = call.frame + 2 + ((-CallDelay) \div timelapse)
     /\ (timelapse = 1000 /\ CallDelay = -2600 => frame = call.frame + 4)

C10_Witness ==
  /\ LaterCall
  /\ timelapse = 1000
  /\ CallDelay = -2600
  /\ frame = call.frame + 4

\* C11: a non-first Timelapse call late by at least half an interval advances
\* next_frame_ms by exactly (skip + 1) * I with skip = 1 + floor(|delay| / I);
\* with I = 1000 and a call 2600 ms late, by 4000 ms.
C11_SkipDeadline ==
  (LaterCall /\ CallDelay < 0 /\ -CallDelay >= CDiv(timelapse, 2)) =>
     /\ next_frame_ms - call.next_frame_ms
          = ((1 + ((-CallDelay) \div timelapse)) + 1) * timelapse
     /\ (timelapse = 1000 /\ CallDelay = -2600 =>
           next_frame_ms = call.next_frame_ms + 4000)

C11_Witness ==
  /\ LaterCall
  /\ timelapse = 1000
  /\ CallDelay = -2600
  /\ next_frame_ms = call.next_frame_ms + 4000

\* ------------------------------------------------- claims on the policies
\* The scheduler part of C12: the first call sleeps the timeout, leaves the
\* frame counter alone and returns stop; there is no second call and no second
\* run of the loop body.
SingleOnce ==
  /\ call.n <= 1
  /\ iter <= 1
  /\ call.n = 1 =>
       /\ call.slept = timeout
       /\ call.ret_frame = call.frame
       /\ call.ret = 0
       /\ keep_looping = 0
  /\ mpc = "done" => iter = 1

\* C12 (as claimed): in Single policy the first scheduler call waits the
\* timeout, leaves the frame counter unchanged and returns stop; the loop body
\* runs exactly once, with one completion wait when an output file is open, and
\* the scheduler is not called again.
C12_SingleAsClaimed ==
  frameNextMethod = FRAME_NEXT_SINGLE =>
    /\ SingleOnce
    /\ (mpc = "done" /\ output_file # Null) => waits[1] = 1

\* C12 (amended): as above, but the one completion wait happens when an output
\* file is open and the capture was started; when the start of the capture
\* fails, or no output file is open, there is no completion wait.
C12_SingleRun ==
  frameNextMethod = FRAME_NEXT_SINGLE =>
    /\ SingleOnce
    /\ waits[1] <= 1
    /\ mpc = "done" => (waits[1] = 1 <=> (output_file # Null /\ 1 \in armed))

C12_Witness ==
  /\ frameNextMethod = FRAME_NEXT_SINGLE
  /\ mpc = "done"
  /\ call.n = 1
  /\ call.slept = 12
  /\ output_file # Null
  /\ waits[1] = 1

\* The deadline of the run: the entry time of the first call plus the timeout.
Deadline == call.first + timeout
\* The last call was made with the deadline passed and a timeout set.
PastDeadline == timeout # 0 /\ call.entry >= Deadline

\* C13: in Timelapse, Keypress, ExternalSignal and Immediate policy the deadline
\* is fixed at the first call as first-call time + timeout and stays; a call
\* returns stop because of the deadline (in Keypress policy: on an input other
\* than the exit token) iff timeout # 0 and the entry time is >= the deadline.
C13_Deadline ==
  (/\ frameNextMethod \in {FRAME_NEXT_TIMELAPSE, FRAME_NEXT_KEYPRESS,
                            FRAME_NEXT_SIGNAL, FRAME_NEXT_IMMEDIATELY}
   /\ call.n >= 1) =>
     /\ complete_time = Deadline
     /\ ~(frameNextMethod = FRAME_NEXT_KEYPRESS /\ call.ch = "x") =>
          (call.ret = 0 <=> PastDeadline)
     /\ keep_looping = call.ret

C13_Witness ==
  /\ frameNextMethod = FRAME_NEXT_SIGNAL
  /\ timeout = 12
  /\ call.n >= 3
  /\ call.first = 2
  /\ call.entry = 14
  /\ complete_time = 14
  /\ call.ret = 0

\* C14: in Forever policy every call adds exactly 1 to the frame counter and
\* returns continue, whatever the timeout and the time elapsed.
C14_ForeverContinues ==
  (frameNextMethod = FRAME_NEXT_FOREVER /\ call.n >= 1) =>
     /\ call.ret_frame = call.frame + 1
     /\ call.ret = 1
     /\ keep_looping = 1

C14_Witness ==
  /\ frameNextMethod = FRAME_NEXT_FOREVER
  /\ call.n >= 2
  /\ PastDeadline
  /\ call.ret = 1
  /\ frame = call.frame + 1

\* The delays of Immediate policy: the settling delay before the first frame
\* (frame counter 0), the short one before the later frames.
ImmediateDelays ==
  /\ call.slept = IF call.frame = 0 THEN 1000 ELSE 30
  /\ call.n = 1 => call.slept = 1000
  /\ call.n > 1 => call.slept = 30

\* C15 (as claimed): in Immediate policy every call returns continue, the first
\* frame waiting the settling delay and the later frames the short delay.
C15_ImmediateAsClaimed ==
  (frameNextMethod = FRAME_NEXT_IMMEDIATELY /\ call.n >= 1) =>
     /\ call.ret = 1
     /\ ImmediateDelays

\* C15 (amended): in Immediate policy a call returns continue unless the
\* overall deadline has passed at its entry (timeout # 0 and entry time >=
\* first-call time + timeout), and then it returns stop; the delays are as
\* claimed and the frame counter moves by 1.
C15_ImmediateDeadline ==
  (frameNextMethod = FRAME_NEXT_IMMEDIATELY /\ call.n >= 1) =>
     /\ call.ret = (IF PastDeadline THEN 0 ELSE 1)
     /\ call.ret_frame = call.frame + 1
     /\ ImmediateDelays

C15_Witness ==
  /\ frameNextMethod = FRAME_NEXT_IMMEDIATELY
  /\ call.n = 2
  /\ call.slept = 30
  /\ PastDeadline
  /\ call.ret = 0

\* C16 (as claimed): in Keypress policy, once the exit token has been read the
\* loop ends without a further capture being attempted; any other input
\* continues the loop.
C16_ExitToken ==
  (frameNextMethod = FRAME_NEXT_KEYPRESS /\ call.n >= 1) =>
     /\ call.ch = "x" =>
          /\ keep_looping = 0
          /\ mpc \notin {"trigger", "sem_wait"}
          /\ iter \notin armed
     /\ call.ch # "x" => keep_looping = 1

\* C17 (as claimed): under every policy and naming mode the frame counter seen
\* at entry of successive scheduler calls never decreases, and no call returns a
\* frame counter smaller than the one it received.
C17_FrameMonotone ==
  /\ call.n >= 2 => call.frame >= call.prev_frame
  /\ call.n >= 1 => call.ret_frame >= call.frame

\* ------------------------------------------------- claims on the callback
\* The callback is past an fwrite that wrote less than the buffer held, on a
\* buffer of an armed capture.
ShortWrite ==
  /\ cb.pc \in {"release", "check_enabled", "queue_get", "send", "post"}
  /\ cb.h # Null
  /\ cb.cap \in armed
  /\ cb.bytes_written # cb.length

\* C18: a short write on a buffer of an armed capture marks the capture
\* complete in the same callback invocation, and the control loop then gets
\* through the completion wait and the finalization to the next cadence tick
\* (or to the end of the loop).
C18_ShortWriteCompletes ==
  /\ [](ShortWrite => cb.complete = 1)
  /\ (ShortWrite /\ mpc = "sem_wait") ~> (mpc = "finalize")
  /\ ShortWrite ~> (mpc \in {"wait_frame", "done"})

C18_Witness ==
  /\ ShortWrite
  /\ cb.flags = {}
  /\ cb.complete = 1
  /\ mpc = "sem_wait"
  /\ complete_semaphore = 0

NoSink == cb.pc \notin {"idle", "read_handle"} /\ cb.h = Null

\* C20: a callback that finds no output sink counts the bytes of the buffer as
\* written and does no fwrite, marks the capture complete only on an
\* end-of-frame or transmission-failed flag, and still releases the buffer to
\* the pool and sends a buffer to the port while the port is enabled.
C20_NoSinkDiscards ==
  /\ [](NoSink =>
         /\ cb.pc # "fwrite"
         /\ cb.bytes_written = cb.length
         /\ cb.complete = (IF cb.flags \cap EndFlags # {} THEN 1 ELSE 0))
  /\ [][(NoSink /\ cb.pc = "release" /\ cb'.pc # "release") =>
           (queue' = Append(queue, cb.buffer) /\ cb'.pc = "check_enabled")]_vars
  /\ [][(NoSink /\ cb.pc = "send" /\ cb'.pc # "send" /\ is_enabled) =>
           port' = Append(port, cb.new_buffer)]_vars

C20_Witness ==
  /\ NoSink
  /\ cb.pc = "post"
  /\ cb.length = 1
  /\ cb.flags = {}
  /\ cb.bytes_written = 1
  /\ cb.complete = 0
  /\ cb.new_buffer = 0
  /\ is_enabled

\* ------------------------------------------- claims on the telemetry reader
Abs(v) == IF v < 0 THEN -v ELSE v
\* The reader has normalised the coordinates of a parsed sentence.
Normalised == gps.pc = "write_lat"

\* The hemisphere as the claim has it: non-negative is pos, negative is neg.
HemisphereAsClaimed(f, c, pos, neg) ==
  /\ f.value >= 0 => c.ref = pos
  /\ f.value < 0 => (c.ref = neg /\ c.deg >= 0 /\ c.min_scaled >= 0)

\* C21 (as claimed): a non-negative raw latitude or longitude (zero included)
\* gets the reference North or East, a negative one is negated and gets South
\* or West.
C21_Hemisphere ==
  Normalised =>
    /\ HemisphereAsClaimed(gps.s.latitude, gps.latitude, "north", "south")
    /\ HemisphereAsClaimed(gps.s.longitude, gps.longitude, "east", "west")

\* The arithmetic of one coordinate c from its raw field f.
Arithmetic(f, c) ==
  f.scale > 0 =>
    /\ c.deg = Abs(f.value) \div (f.scale * 100)
    /\ c.min_scaled = Abs(f.value) % (f.scale * 100)
    /\ c.min_scale = f.scale
    /\ c.deg * (f.scale * 100) + c.min_scaled = Abs(f.value)
    /\ 0 <= c.min_scaled /\ c.min_scaled < f.scale * 100
    /\ (f.value = -12345 /\ f.scale = 100) =>
         (c.deg = 1 /\ c.min_scaled = 2345 /\ c.min_scale = 100
          /\ c.ref \in {"south", "west"})

\* C22: for a raw value v and a scale s > 0, degrees = |v| div (s*100),
\* scaled-minutes = |v| mod (s*100), minute-scale = s; for v = -12345, s = 100:
\* South, 1, 2345, 100.
C22_Arithmetic ==
  Normalised =>
    /\ Arithmetic(gps.s.latitude, gps.latitude)
    /\ Arithmetic(gps.s.longitude, gps.longitude)

C22_Witness ==
  /\ Normalised
  /\ gps.s.latitude = [value |-> -12345, scale |-> 100]
  /\ gps.latitude.ref = "south"
  /\ gps.latitude.deg = 1
  /\ gps.latitude.min_scaled = 2345
  /\ gps.latitude.min_scale = 100
  /\ gps.s.longitude = [value |-> 12345, scale |-> 1]
  /\ gps.longitude.deg = 123
  /\ gps.longitude.min_scaled = 45

\* C23 (as claimed): a sentence that is malformed or of an unrecognised type
\* leaves nav_data as it is, and the reader goes on to read the next one.
C23_BadSentenceSkipped ==
  [][(/\ gps.pc = "parse"
      /\ gps.s.kind \in {"other", "malformed", "overlong", "unterminated"}
      /\ gps' # gps) =>
        (nav_data' = nav_data /\ gps'.pc = "read")]_vars

\* C24 (as claimed): the fields add_exif_tags reads for the latitude and the
\* longitude tags all come from one and the same telemetry update.
C24_NoTearing ==
  (exif.pc = "idle" /\ exif.n >= 1) =>
     /\ exif.lat = exif.latref
     /\ exif.latref = exif.lon
     /\ exif.lon = exif.lonref

\* ------------------------------------------ claims on the timelapse policy
TimelapsePolicy == frameNextMethod = FRAME_NEXT_TIMELAPSE
\* The step is a scheduler call.
IsCall == call'.n = call.n + 1
\* The last call was late by at least half an interval.
LateByHalf == LaterCall /\ CallDelay < 0 /\ -CallDelay >= CDiv(timelapse, 2)

\* C27: the first Timelapse call sleeps the full interval, sets next_frame_ms
\* to the time read after the sleep plus the interval and adds 1 to the frame
\* counter; next_frame_ms is established (leaves -1) on that call only.
C27_FirstCall ==
  /\ [](TimelapsePolicy =>
         /\ next_frame_ms = -1 <=> call.n = 0
         /\ call.branch = "first" <=> call.n = 1)
  /\ [][(TimelapsePolicy /\ IsCall /\ call.n = 0) =>
           /\ call'.slept = timelapse
           /\ now' >= now + timelapse
           /\ next_frame_ms' = now' + timelapse
           /\ frame' = frame + 1]_vars

C27_Witness ==
  /\ TimelapsePolicy
  /\ timelapse = 1000
  /\ call.n = 1
  /\ call.entry = 200
  /\ now = 1300
  /\ next_frame_ms = 2300
  /\ frame = 1

\* C28 (as claimed): on a non-first Timelapse call late by at least half an
\* interval the scheduler sleeps |delay| + skip * interval, with
\* skip = 1 + floor(|delay| / interval).
C28_ResidualAsClaimed ==
  LateByHalf =>
    call.slept = (-CallDelay) + (1 + ((-CallDelay) \div timelapse)) * timelapse

\* C28 (amended): the sleep is skip * interval - |delay|, the time left to the
\* first schedule slot after the call, between 1 ms and a whole interval.
C28_ResidualSleep ==
  LateByHalf =>
    /\ call.slept = (1 + ((-CallDelay) \div timelapse)) * timelapse - (-CallDelay)
    /\ 0 < call.slept /\ call.slept <= timelapse
    /\ (timelapse = 1000 /\ CallDelay = -2600) => call.slept = 400

C28_Witness ==
  /\ LateByHalf
  /\ timelapse = 1000
  /\ CallDelay = -2600
  /\ call.slept = 400

Captures == 1..MaxIter

\* C25: after a successful finalize of a capture written to a file, the final
\* path exists and holds exactly the bytes the callback wrote during that
\* capture, and the temporary path no longer exists.
C25_FinalHoldsWritten ==
  \A k \in Captures :
    finalized[k].rename = "ok" =>
      /\ fs.files[k].final
      /\ ~fs.files[k].temp
      /\ fs.files[k].bytes = written[k]

RenameFailed(k) == finalized[k].rename = "failed"
LinkFailed(k) == finalized[k].link = "failed"
FinalizeFailed(k) == RenameFailed(k) \/ LinkFailed(k)

\* After rename_file the control thread disables the port and tests the
\* scheduler's result as it was returned.
GoesOnAfterFailure ==
  /\ [](\A k \in Captures :
         FinalizeFailed(k) /\ iter = k =>
           /\ mpc \in {"disable", "disabling", "cleanup", "wait_frame", "done"}
           /\ mpc \in {"disabling", "cleanup", "wait_frame", "done"}
                 => ~is_enabled)
  /\ [][mpc = "finalize" /\ mpc' # mpc =>
          mpc' = "disable" /\ keep_looping' = keep_looping]_vars
  /\ [][mpc = "cleanup" /\ mpc' # mpc /\ FinalizeFailed(iter) =>
          /\ keep_looping = call.ret
          /\ mpc' = IF call.ret # 0 THEN "wait_frame" ELSE "done"]_vars

\* C26 as stated: after a failed rename of the temporary file or a failed
\* link, the captured file is left under its temporary name, the port is
\* disabled and the loop goes on with the scheduler's result.
C26_LeftUnderTempName ==
  /\ [](\A k \in Captures :
         FinalizeFailed(k) => fs.files[k].temp /\ ~fs.files[k].final)
  /\ GoesOnAfterFailure

\* C26: a failed rename leaves the captured file under its temporary name; a
\* failed link after a successful rename leaves it under its final name and
\* the link as it was; in both cases the port is disabled and the loop goes
\* on with the scheduler's result.
C26_FailureNonFatal ==
  /\ [](\A k \in Captures :
         /\ RenameFailed(k) => fs.files[k].temp /\ ~fs.files[k].final
         /\ LinkFailed(k) /\ ~RenameFailed(k) =>
              /\ fs.files[k].final /\ ~fs.files[k].temp
              /\ fs.latest # k)
  /\ GoesOnAfterFailure

C26_Witness ==
  /\ iter = 2
  /\ finalized[1] = [rename |-> "ok", link |-> "failed"]
  /\ finalized[2] = [rename |-> "failed", link |-> "ok"]
  /\ fs.files[1].final
  /\ fs.files[2].temp
  /\ fs.latest = 2
  /\ mpc = "cleanup"
  /\ ~is_enabled

\* ------------------------------------------- claims on the order of steps
\* The steps of one iteration, numbered in the order the claim gives them:
\* 1 metadata, 2 enable, 3 pre-queue, 4 trigger, 5 wait, 6 clear the handle,
\* 7 finalize, 8 disable.
Phase(pc) ==
  CASE pc = "open" -> 0
    [] pc = "metadata" -> 1
    [] pc = "enable" -> 2
    [] pc \in {"queue_length", "prequeue_get", "prequeue_send"} -> 3
    [] pc = "trigger" -> 4
    [] pc = "sem_wait" -> 5
    [] pc = "clear_handle" -> 6
    [] pc = "finalize" -> 7
    [] pc \in {"disable", "disabling"} -> 8
    [] OTHER -> 9

\* The two error paths that leave steps out: no output file could be opened
\* (nothing is captured), and the trigger failed (nothing to wait for).
ErrorSkip ==
  \/ mpc = "open" /\ mpc' = "cleanup"
  \/ mpc = "trigger" /\ mpc' = "clear_handle"

IterationStart == {"wait_frame", "open", "metadata", "enable"}

\* C30: within an iteration the control thread goes through metadata, enable,
\* pre-queue, trigger, wait, clear the handle, finalize, disable in this
\* order, one after the other (apart from the two error paths); the port is
\* disabled from the start of every iteration until the enable step, so the
\* metadata step always runs with the port disabled.
C30_StepOrder ==
  /\ [](mpc \in IterationStart => ~is_enabled)
  /\ [][mpc' # mpc /\ iter' = iter =>
          \/ Phase(mpc') = Phase(mpc)
          \/ Phase(mpc') = Phase(mpc) + 1
          \/ ErrorSkip]_vars
  /\ [][mpc = "metadata" /\ mpc' # mpc => ~is_enabled /\ mpc' = "enable"]_vars
  /\ [][mpc = "enable" /\ mpc' # mpc => is_enabled']_vars
  /\ [][mpc = "disable" /\ mpc' # mpc => ~is_enabled']_vars

C30_Witness ==
  /\ iter = 2
  /\ mpc = "enable"
  /\ ~is_enabled
  /\ 1 \in armed
  /\ waits[1] = 1
  /\ 1 \in closed

\* ------------------------------------------- claims on the buffer pool
\* C31: every buffer the port hands back is released to the pool and
\* redispatched only while the port is enabled, so at the pre-queue step of
\* every iteration all NumBuffers buffers are in the pool queue and all of
\* them are sent to the port.
C31_AllBuffersPrequeued ==
  /\ mpc = "queue_length" => Len(queue) = NumBuffers
  /\ mpc = "trigger" => num = NumBuffers /\ q = NumBuffers

\* ---------------------------------------- claims on a missing output file
CaptureSteps ==
  {"metadata", "enable", "queue_length", "prequeue_get", "prequeue_send",
   "trigger", "sem_wait", "clear_handle", "finalize", "disable", "disabling"}

FirstCapture(k) ==
  /\ burst[k] # "none"
  /\ \A j \in 1..(k - 1) : burst[j] = "none"

\* C33: with burst mode configured, burst capture is activated on the first
\* capture of the session and on no other capture.
C33_BurstOnFirstCapture ==
  burstCaptureMode =>
    \A k \in Captures : burst[k] = "on" <=> FirstCapture(k)

\* ------------------------------------- claims on the fields of nav_data
\* The telemetry reader has just finished sentence number gps.n of kind k.
Published(k) ==
  /\ gps.pc = "write_rest"
  /\ gps.s.kind = k
  /\ gps'.pc = "read"

\* C34: an RMC sentence that parses updates latitude, longitude, speed and
\* course and leaves altitude unchanged; a GGA sentence that parses updates
\* latitude, longitude and altitude and leaves speed and course unchanged;
\* nav_data changes in steps of the telemetry reader only.
C34_FieldsBySentence ==
  /\ [][Published("rmc") =>
          /\ nav_data'.latitude.upd = gps.n /\ nav_data'.longitude.upd = gps.n
          /\ nav_data'.speed = gps.n /\ nav_data'.course = gps.n
          /\ nav_data'.altitude = nav_data.altitude]_vars
  /\ [][Published("gga") =>
          /\ nav_data'.latitude.upd = gps.n /\ nav_data'.longitude.upd = gps.n
          /\ nav_data'.altitude = gps.n
          /\ nav_data'.speed = nav_data.speed
          /\ nav_data'.course = nav_data.course]_vars
  /\ [][nav_data' # nav_data =>
          /\ gps.pc \in {"write_lat", "write_lon", "write_rest"}
          /\ gps' # gps
          /\ exif' = exif]_vars

C34_Witness ==
  /\ gps.pc = "read"
  /\ gps.n = 2
  /\ nav_data.latitude.upd = 2
  /\ nav_data.longitude.upd = 2
  /\ nav_data.altitude = 2
  /\ nav_data.speed = 1
  /\ nav_data.course = 1

\* ------------------------------------------- claims on the line assembly
\* Line number j as it arrived, whole.
Whole(j) == <<[id |-> j, len |-> serial.arrived[j], nl |-> TRUE]>>

RECURSIVE Sum(_)
Sum(lens) == IF lens = <<>> THEN 0 ELSE Head(lens) + Sum(Tail(lens))

\* Bytes the reader has received, and bytes of the lines it has extracted.
Received == Sum(serial.arrived) - BytesOf(serial.pending)
Extracted == Sum([k \in 1..Len(serial.lines) |-> BytesOf(serial.lines[k])])

\* C35: as long as no read has failed, the lines extracted are the lines that
\* arrived, whole, once each and in their order; after the compaction buffer
\* holds no complete line, only the bytes received behind the last newline,
\* all of them.
C35_ExactlyOnceInOrder ==
  serial.errors = 0 /\ serial.pc # "crashed" =>
    /\ \A j \in 1..Len(serial.lines) : serial.lines[j] = Whole(j)
    /\ serial.pc = "read" =>
         /\ LineLength(serial.buffer) = 0
         /\ BytesOf(serial.buffer) = Received - Extracted
         /\ serial.in_buffer = BytesOf(serial.buffer)

\* C36: a read that delivers no bytes or reports an error leaves buffer and
\* in_buffer as they were, and the reader goes on to the scan.
C36_EmptyReadChangesNothing ==
  [][serial.pc = "read" /\ serial'.pc = "scan" /\ serial'.read_bytes <= 0 =>
       /\ serial'.buffer = serial.buffer
       /\ serial'.in_buffer = serial.in_buffer]_vars

\* C38: in_buffer stays within 0..BufferSize at every point of the loop, and
\* every line copied to line_buffer fits it together with its terminator.
C38_WithinBuffers ==
  /\ serial.in_buffer \in 0..BufferSize
  /\ \A k \in 1..Len(serial.lines) : Fits(BytesOf(serial.lines[k]))

\* Line j has arrived and is one the reader can take: it fits line_buffer.
WellFormed(j) == Len(serial.arrived) >= j /\ Fits(serial.arrived[j])
\* Line j has been extracted, whole, and handed to the parser.
ParsedWhole(j) ==
  /\ Len(serial.arrived) >= j
  /\ \E k \in 1..Len(serial.lines) : serial.lines[k] = Whole(j)

\* C37: whatever arrived before it, a line that fits line_buffer is
\* eventually extracted whole and handed to the parser, in every run in which
\* no read failed and no overrun of line_buffer killed the reader.
C37_ReaderProgress ==
  \A j \in 1..MaxStream :
    WellFormed(j) ~>
      (ParsedWhole(j) \/ serial.errors > 0 \/ serial.pc = "crashed")

\* ------------------------------------------- claims on the hemisphere tags
\* The tag a hemisphere stands for.
HemisphereTag(ref) ==
  CASE ref = "north" -> "GPS.GPSLatitudeRef=N"
    [] ref = "south" -> "GPS.GPSLatitudeRef=S"
    [] ref = "east" -> "GPS.GPSLongitudeRef=E"
    [] ref = "west" -> "GPS.GPSLongitudeRef=W"

\* C39: when the tags are built from a position the telemetry reader has
\* stored, the latitude hemisphere tag is the one of the stored latitude
\* reference, the longitude hemisphere tag the one of the stored longitude
\* reference, and no tag repeats the content of the tag before it.
C39_HemisphereTags ==
  /\ Len(exif.tags) >= 2 /\ exif.latref > 0 =>
       exif.tags[2] = HemisphereTag(exif.lat_ref)
  /\ Len(exif.tags) >= 4 /\ exif.lonref > 0 =>
       exif.tags[4] = HemisphereTag(exif.lon_ref)
  /\ \A k \in 2..Len(exif.tags) : exif.tags[k] # exif.tags[k - 1]

\* ------------------------------------------------ claims on the command line
\* The option the step has just processed.
Processed(opt) ==
  /\ Len(cmdline'.opts) = Len(cmdline.opts) + 1
  /\ cmdline'.opts[Len(cmdline'.opts)][1] = opt
  /\ cmdline'.valid

\* C40: options are processed left to right; a timeout of 0 makes the policy
\* Forever only when the policy is still Single, and leaves a Keypress,
\* ExternalSignal, Timelapse or Immediate policy of an earlier option alone;
\* a policy option after the zero timeout replaces Forever.
C40_ZeroTimeoutKeepsPolicy ==
  /\ [][Processed("timeout") /\ timeout' = 0 =>
          frameNextMethod' = IF frameNextMethod = FRAME_NEXT_SINGLE
                               THEN FRAME_NEXT_FOREVER ELSE frameNextMethod]_vars
  /\ [][Processed("timeout") /\ timeout' # 0 => UNCHANGED frameNextMethod]_vars
  /\ [][frameNextMethod = FRAME_NEXT_FOREVER =>
          /\ Processed("keypress") => frameNextMethod' = FRAME_NEXT_KEYPRESS
          /\ Processed("signal") => frameNextMethod' = FRAME_NEXT_SIGNAL
          /\ Processed("timelapse") =>
               frameNextMethod' = IF timelapse' # 0 THEN FRAME_NEXT_TIMELAPSE
                                    ELSE FRAME_NEXT_IMMEDIATELY]_vars

C40_Witness ==
  /\ cmdline.opts = <<<<"timelapse", 0>>, <<"timeout", 0>>>>
  /\ frameNextMethod = FRAME_NEXT_IMMEDIATELY
====
